---- MODULE Spec2Model ----
(***************************************************************************)
(* bevy_simple_preferences: the type-keyed preferences store, its          *)
(* registry-driven codec, the file storage backend and the save scheduler  *)
(* of PreferencesPlugin.                                                   *)
(*                                                                         *)
(* Three specifications share the pure operators of the codec:             *)
(*   SpecCodec  set / take / serialize / deserialize on one store          *)
(*   SpecFs     FileStorage::save_preferences step by step, with crashes   *)
(*   Spec       the application: load, initial values, ticks, save, exit,  *)
(*              restart on the same storage                                *)
(***************************************************************************)
EXTENDS Integers, FiniteSets, Sequences, TLC

\* Option::None of a value, and the outcome of a panic while producing one.
None == [type |-> "None"]
Panic == [type |-> "PANIC"]
\* No registration found, and a panic while resolving a key.
NoType == "NoType"
PanicKey == "PANIC"

(***************************************************************************)
(* Types, type paths and values                                            *)
(***************************************************************************)

\* The reflected types of the tests: Foo, Bar and ambiguous::Bar, which
\* shares Bar's short path. Gone is a type of an earlier version of the
\* application: documents may still name it, no registry holds it.
TypeIds == {"Foo", "Bar", "AmbBar"}

TypePath(t) ==
    CASE t = "Foo" -> "tests::Foo"
      [] t = "Bar" -> "tests::Bar"
      [] t = "AmbBar" -> "tests::ambiguous::Bar"
      [] OTHER -> "tests::Gone"

ShortTypePath(t) ==
    CASE t = "Foo" -> "Foo"
      [] t = "Bar" -> "Bar"
      [] t = "AmbBar" -> "Bar"
      [] OTHER -> "Gone"

\* Field names of each struct: Foo { field, option }, Bar(String).
FieldNames(t) == IF t = "Foo" THEN {"field", "option"} ELSE {"0"}

FieldVals == {0, 1}

\* A field value of another type than the field's (a String where a u32 is declared).
WrongType == 2

\* A concrete value: a type and one value per field of the type.
ValuesOf(t) == {[type |-> t, fields |-> f] : f \in [FieldNames(t) -> FieldVals]}

\* Default::default() of a type: every field 0.
DefaultValue(t) == [type |-> t, fields |-> [n \in FieldNames(t) |-> 0]]

(***************************************************************************)
(* TypeRegistry lookups (a registry is the set of registered types)        *)
(***************************************************************************)

\* None when no type, or more than one type, is registered under the short path.
GetWithShortTypePath(reg, short) ==
    LET c == {t \in reg : ShortTypePath(t) = short}
    IN  IF Cardinality(c) = 1 THEN CHOOSE t \in c : TRUE ELSE NoType

GetWithTypePath(reg, path) ==
    LET c == {t \in reg : TypePath(t) = path}
    IN  IF c # {} THEN CHOOSE t \in c : TRUE ELSE NoType

\* A mutant of effective_type_path: the short path whenever the type is registered.
EffectiveTypePathShortOnly(t, reg) ==
    IF t \in reg THEN ShortTypePath(t) ELSE PanicKey

\* A mutant of effective_type_path: the full path whenever the type is registered.
EffectiveTypePathFullOnly(t, reg) ==
    IF t \in reg THEN TypePath(t) ELSE PanicKey

\* A mutant of effective_type_path: no panic, the short path when it names a
\* registration and the full path otherwise.
EffectiveTypePathUnchecked(t, reg) ==
    IF GetWithShortTypePath(reg, ShortTypePath(t)) # NoType THEN ShortTypePath(t)
    ELSE TypePath(t)

effective_type_path(t, reg) ==
    LET r == GetWithShortTypePath(reg, ShortTypePath(t))
    IN  IF r # NoType
        THEN IF TypePath(r) = TypePath(t) THEN ShortTypePath(t) ELSE PanicKey
        ELSE IF GetWithTypePath(reg, TypePath(t)) # NoType
             THEN TypePath(t)
             ELSE PanicKey

(***************************************************************************)
(* PreferencesSerializableMap: values is a map from key to boxed value     *)
(***************************************************************************)

EmptyValues == <<>>

Insert(values, k, v) ==
    [x \in (DOMAIN values) \cup {k} |-> IF x = k THEN v ELSE values[x]]

Remove(values, k) == [x \in (DOMAIN values) \ {k} |-> values[x]]

\* set: insert under the effective type path of the value.
MapSet(values, reg, v) == Insert(values, effective_type_path(v.type, reg), v)

\* A mutant of get: the entry is looked up under the short path of T.
MapGetByShortPath(values, reg, t) ==
    IF ShortTypePath(t) \in DOMAIN values /\ values[ShortTypePath(t)].type = t
    THEN values[ShortTypePath(t)] ELSE None

\* get: look the effective type path up, then downcast to T.
MapGet(values, reg, t) ==
    LET k == effective_type_path(t, reg)
    IN  IF k \in DOMAIN values /\ values[k].type = t THEN values[k] ELSE None

\* take: remove the entry under the effective type path; the value when it downcasts.
MapTakeValue(values, reg, t) == MapGet(values, reg, t)

\* A mutant of take: the value is returned and the entry stays.
MapTakeKeepsEntry(values, reg, t) == values

MapTakeRest(values, reg, t) == Remove(values, effective_type_path(t, reg))

(***************************************************************************)
(* Codec                                                                   *)
(***************************************************************************)

\* TypedReflectSerializer: a struct is written as its fields, without its type.
SerializeValue(v) == v.fields

\* Serialize for PreferencesSerializableMap: one document entry per map entry,
\* under the map's key.
Serialize(values) == [k \in DOMAIN values |-> SerializeValue(values[k])]

\* The registration a document key names: by short path first, then by full path.
KeyRegistration(reg, key) ==
    LET s == GetWithShortTypePath(reg, key)
    IN  IF s # NoType THEN s ELSE GetWithTypePath(reg, key)

\* TypedReflectDeserializer of a registration: a dynamic struct representing the
\* registered type, holding the fields the document gives; a field the type does
\* not have is an error.
ReflectDeserializable(t, ser) == DOMAIN ser \subseteq FieldNames(t)

ReflectDeserialize(t, ser) == [rep |-> t, fields |-> ser]

\* The keys of the model in the order of String's Ord (BTreeMap order).
KeyOrder ==
    <<"Bar", "Foo", "Gone", "tests::Bar", "tests::Foo", "tests::Gone",
      "tests::ambiguous::Bar">>

IsKeyOf(values, k) == k \in DOMAIN values

\* The keys of a map or document in key order; a document lists its entries
\* in this order, as serialize writes them.
SortedKeys(values) == SelectSeq(KeyOrder, LAMBDA k : IsKeyOf(values, k))

\* The error visit_map stops at for one entry, "" when the entry is read.
EntryError(reg, doc, k) ==
    IF KeyRegistration(reg, k) = NoType THEN "UnregisteredType"
    ELSE IF ~ReflectDeserializable(KeyRegistration(reg, k), doc[k]) THEN "Custom"
    ELSE ""

\* A mutant of visit_map: an entry without a registration is passed over.
VisitMapSkipsUnregistered(reg, doc) ==
    LET kept == {k \in DOMAIN doc : KeyRegistration(reg, k) # NoType}
    IN  IF \E k \in kept : EntryError(reg, doc, k) # ""
        THEN [ok |-> FALSE, err |-> "Custom"]
        ELSE [ok |-> TRUE,
              values |-> [k \in kept |->
                            ReflectDeserialize(KeyRegistration(reg, k), doc[k])]]

\* MapVisitor::visit_map: the dynamic values by document key, or the error of
\* the first entry that has one.
VisitMap(reg, doc) ==
    LET keys == SortedKeys(doc)
        bad == {i \in 1..Len(keys) : EntryError(reg, doc, keys[i]) # ""}
    IN  IF bad # {}
        THEN [ok |-> FALSE,
              err |-> EntryError(reg, doc, keys[CHOOSE i \in bad : \A j \in bad : i <= j])]
        ELSE [ok |-> TRUE,
              values |-> [k \in DOMAIN doc |->
                            ReflectDeserialize(KeyRegistration(reg, k), doc[k])]]

\* reflect_partial_eq of two boxed values of the model.
ReflectPartialEq(v1, v2) == v1 = v2

\* PartialEq for PreferencesSerializableMap: the entries of the two maps are
\* paired in key order, the pairing ends with the shorter map, and the maps
\* are equal when no pair differs in key or value.
MapEq(a, b) ==
    LET ka == SortedKeys(a)
        kb == SortedKeys(b)
        n == IF Len(ka) < Len(kb) THEN Len(ka) ELSE Len(kb)
    IN  \A i \in 1..n : ka[i] = kb[i] /\ ReflectPartialEq(a[ka[i]], b[kb[i]])

\* ReflectDefault is registered by register_preferences (Foo); Bar and
\* ambiguous::Bar are registered without it.
HasReflectDefault(t) == t = "Foo"

\* FromReflect of a struct: every field of the type must be present, with a
\* value of the field's type.
FromReflect(d) ==
    IF DOMAIN d.fields = FieldNames(d.rep) /\ \A n \in DOMAIN d.fields : d.fields[n] \in FieldVals
    THEN [type |-> d.rep, fields |-> d.fields]
    ELSE None

\* try_apply of a dynamic struct onto a default: the fields present overwrite,
\* names the type does not have are passed over; a value of another type
\* than the field's is an error (None).
TryApply(default, d) ==
    LET known == DOMAIN d.fields \cap FieldNames(default.type)
    IN  IF \E n \in known : d.fields[n] \notin FieldVals
        THEN None
        ELSE [type |-> default.type,
              fields |-> [n \in FieldNames(default.type) |->
                            IF n \in known THEN d.fields[n] ELSE default.fields[n]]]

\* PreferencesRegistryData::apply_from_reflect on a dynamic value: FromReflect,
\* else the ReflectDefault value with the dynamic value applied, else a panic.
apply_from_reflect(d) ==
    IF FromReflect(d) # None THEN FromReflect(d)
    ELSE IF HasReflectDefault(d.rep) /\ TryApply(DefaultValue(d.rep), d) # None
         THEN TryApply(DefaultValue(d.rep), d)
    ELSE Panic

\* from_dynamic_values: every dynamic value converted, under its document key.
from_dynamic_values(dyn) == [k \in DOMAIN dyn |-> apply_from_reflect(dyn[k])]

\* PreferencesSerializableMapSeed::deserialize; a conversion that panics
\* ends the process ("PANIC").
Deserialize(reg, doc) ==
    LET visited == VisitMap(reg, doc)
    IN  IF ~visited.ok THEN visited
        ELSE IF \E k \in DOMAIN visited.values : apply_from_reflect(visited.values[k]) = Panic
        THEN [ok |-> FALSE, err |-> "PANIC"]
        ELSE [ok |-> TRUE, values |-> from_dynamic_values(visited.values)]

(***************************************************************************)
(* State                                                                   *)
(***************************************************************************)

VARIABLES
    \* SpecCodec: one PreferencesSerializableMap and its documents
    type_registry,   \* the registered types of the map's TypeRegistryArc
    written_map,     \* values of the map being set and serialized
    document,        \* the last serialized document
    serialized_map,  \* values of the map when document was serialized
    read_map,        \* result of the last deserialize
    codec_op,        \* the last operation
    store_op,        \* the last operation on the map of SpecStore
    store_arg,       \* its argument
    store_ret,       \* what it returned
    insertion_order, \* the keys of the map of SpecStore, in the order they were inserted
    \* SpecFs: FileStorage::save_preferences
    files,           \* path -> file
    fs_pc,           \* position in save_preferences / write_atomically
    output,          \* the serialized bytes being written
    fs_prev,         \* the destination when the save began
    fs_read,         \* what the last reader of the destination saw
    \* Spec: the application with PreferencesPlugin
    run,             \* number of the current run of the application
    frames,          \* updates begun so far, over all runs
    pc,              \* the schedule about to run
    storage_type,    \* PreferencesPlugin::storage_type
    disk,            \* the stored document of the storage backend
    storage,         \* whether PreferencesStorageResource exists
    preferences,     \* the PreferencesSerializableMap resource
    resource,        \* PreferencesResource<T> of each registered type
    resource_changed,\* whether PreferencesResource<T> changed since preferences_changed::<T> last ran
    done,            \* the per-type systems that have run in the current schedule
    change_tick,     \* the change tick of the world
    last_save_tick,  \* Local<Option<Tick>> of save_preferences
    last_save_time,  \* Local<Duration> of save_preferences
    elapsed,         \* Time<Real>::elapsed
    app_exit,        \* an AppExit event was sent in this update
    hist,            \* history: what happened, for stating the properties
    \* SpecGuard
    guard,           \* the MutatePreferencesGuard that is alive, if any
    commands,        \* the SetPreferencesCommand values queued in Commands
    scope_hist       \* history: scopes opened, commands queued, values at release

codecVars == <<type_registry, written_map, document, serialized_map, read_map, codec_op>>
storeVars == <<store_op, store_arg, store_ret, insertion_order>>
fsVars == <<files, fs_pc, output, fs_prev, fs_read>>
appVars == <<run, frames, pc, storage_type, disk, storage, preferences, resource,
             resource_changed, done, change_tick, last_save_tick, last_save_time,
             elapsed, app_exit, hist>>
guardVars == <<guard, commands, scope_hist>>
vars == <<codecVars, storeVars, fsVars, appVars, guardVars>>

(***************************************************************************)
(* SpecCodec                                                               *)
(***************************************************************************)

\* get_registry() of the tests, without and with ambiguous::Bar registered.
CodecRegistries == {{"Foo", "Bar"}, {"Foo", "Bar", "AmbBar"}}

NoDocument == [present |-> FALSE, doc |-> <<>>]
NotRead == [ok |-> FALSE, err |-> "NotRead"]

\* PreferencesSerializableMap::set of a registered type.
CodecSet(t, v) ==
    /\ t \in type_registry
    /\ effective_type_path(t, type_registry) # PanicKey
    /\ written_map' = MapSet(written_map, type_registry, v)
    /\ codec_op' = "set"
    /\ UNCHANGED <<type_registry, document, serialized_map, read_map, storeVars, fsVars, appVars, guardVars>>

\* PreferencesSerializableMap::take of a registered type.
CodecTake(t) ==
    /\ t \in type_registry
    /\ effective_type_path(t, type_registry) # PanicKey
    /\ written_map' = MapTakeRest(written_map, type_registry, t)
    /\ codec_op' = "take"
    /\ UNCHANGED <<type_registry, document, serialized_map, read_map, storeVars, fsVars, appVars, guardVars>>

\* Serialize for PreferencesSerializableMap.
CodecSerialize ==
    /\ document' = [present |-> TRUE, doc |-> Serialize(written_map)]
    /\ serialized_map' = written_map
    /\ read_map' = NotRead
    /\ codec_op' = "serialize"
    /\ UNCHANGED <<type_registry, written_map, storeVars, fsVars, appVars, guardVars>>

\* PreferencesSerializableMapSeed::deserialize of the serialized document, with
\* the same registry.
CodecDeserialize ==
    /\ document.present
    /\ read_map' = Deserialize(type_registry, document.doc)
    /\ codec_op' = "deserialize"
    /\ UNCHANGED <<type_registry, written_map, document, serialized_map, storeVars, fsVars, appVars, guardVars>>

(***************************************************************************)
(* SpecStore: the operations of PreferencesSerializableMap on one map, with *)
(* dynamic values and with documents that were not written by this registry *)
(***************************************************************************)
\* The place of a key in String's order.
KeyRank(k) == CHOOSE i \in 1..Len(KeyOrder) : KeyOrder[i] = k

\* The entries of a sequence of keys, as serialize_entry emits them.
EntriesOf(values, keys) ==
    [i \in 1..Len(keys) |-> [key |-> keys[i], value |-> SerializeValue(values[keys[i]])]]

\* A mutant of the serialization: the entries in the order they were inserted.
SerializeEntriesAsInserted(values) == EntriesOf(values, insertion_order)

\* Serialize for PreferencesSerializableMap, entry by entry: values.iter() of
\* a BTreeMap gives the entries in the order of their keys.
SerializeEntries(values) == EntriesOf(values, SortedKeys(values))

\* The order of insertion after an insert, and after a removal.
Inserted(order, k) == IF \E i \in 1..Len(order) : order[i] = k THEN order ELSE Append(order, k)
Removed(order, k) == SelectSeq(order, LAMBDA x : x # k)

NoArg == [type |-> NoType, value |-> None, doc |-> <<>>, other |-> <<>>, dyn |-> <<>>]
NoRet == [value |-> None, eq |-> FALSE, doc |-> <<>>, entries |-> <<>>, read |-> NotRead]

\* A boxed value given to set_dyn: a concrete value, or a dynamic struct
\* representing a type.
Boxed(dynamic, t, fields) == [dynamic |-> dynamic, rep |-> t, fields |-> fields]

\* The dynamic structs given to set_dyn: complete ones, one without the field
\* option, one with a value of another type in field, and a Bar without its field.
DynamicValues ==
    { Boxed(TRUE, "Foo", [n \in {"field", "option"} |-> 1]),
      Boxed(TRUE, "Foo", [n \in {"field"} |-> 1]),
      Boxed(TRUE, "Foo", [n \in {"field", "option"} |-> IF n = "field" THEN WrongType ELSE 1]),
      Boxed(TRUE, "Bar", [n \in {"0"} |-> 1]),
      Boxed(TRUE, "Bar", <<>>) }

BoxedValues ==
    DynamicValues \cup {Boxed(FALSE, v.type, v.fields) : v \in UNION {ValuesOf(t) : t \in TypeIds}}

FooEntry(field, option) == [n \in {"field", "option"} |-> IF n = "field" THEN field ELSE option]
BarEntry(x) == [n \in {"0"} |-> x]

\* Documents written by hand or by another version of the application: keys
\* by short and by full path, a key of a type that is gone, the same type
\* under both of its keys, an entry with an unknown field and without the
\* field option, an entry without the field option.
StoreDocuments ==
    { [k \in {"Foo"} |-> FooEntry(1, 1)],
      [k \in {"Foo", "Gone"} |-> IF k = "Foo" THEN FooEntry(1, 1) ELSE BarEntry(1)],
      [k \in {"tests::Foo"} |-> FooEntry(1, 0)],
      [k \in {"Foo", "tests::Foo"} |-> IF k = "Foo" THEN FooEntry(1, 1) ELSE FooEntry(0, 1)],
      [k \in {"Foo"} |-> [n \in {"field", "extra"} |-> 1]],
      [k \in {"Foo"} |-> [n \in {"field"} |-> 1]],
      [k \in {"Bar"} |-> BarEntry(1)],
      [k \in {"tests::Bar", "tests::ambiguous::Bar"} |->
          IF k = "tests::Bar" THEN BarEntry(0) ELSE BarEntry(1)],
      [k \in {"Foo", "Gone"} |->
          IF k = "Foo" THEN [n \in {"field", "extra"} |-> 1] ELSE BarEntry(1)] }

\* The maps a map is compared with: the empty map, a map of one entry, a map
\* of two entries.
OtherMaps ==
    { EmptyValues,
      [k \in {"Foo"} |-> [type |-> "Foo", fields |-> FooEntry(1, 1)]],
      [k \in {"Bar", "Foo"} |->
          IF k = "Foo" THEN [type |-> "Foo", fields |-> FooEntry(1, 1)]
          ELSE [type |-> "Bar", fields |-> BarEntry(1)]] }

\* PreferencesSerializableMap::set of a registered type.
StoreSet(t, v) ==
    /\ t \in type_registry
    /\ effective_type_path(t, type_registry) # PanicKey
    /\ written_map' = MapSet(written_map, type_registry, v)
    /\ store_op' = "set"
    /\ store_arg' = [NoArg EXCEPT !.type = t, !.value = v]
    /\ store_ret' = NoRet
    /\ insertion_order' = Inserted(insertion_order, effective_type_path(t, type_registry))
    /\ UNCHANGED <<type_registry, document, serialized_map, read_map, codec_op, fsVars, appVars, guardVars>>

\* The value set_dyn inserts: a dynamic value is converted to the type it represents.
SetDynValue(b) ==
    IF b.dynamic THEN apply_from_reflect(b) ELSE [type |-> b.rep, fields |-> b.fields]

\* PreferencesSerializableMap::set_dyn of a value of a registered type; a
\* conversion that panics leaves the map as it was.
StoreSetDyn(b) ==
    /\ b.rep \in type_registry
    /\ effective_type_path(b.rep, type_registry) # PanicKey
    /\ written_map' = IF SetDynValue(b) = Panic THEN written_map
                      ELSE Insert(written_map, effective_type_path(b.rep, type_registry),
                                  SetDynValue(b))
    /\ store_op' = IF SetDynValue(b) = Panic THEN "panic" ELSE "set_dyn"
    /\ store_arg' = [NoArg EXCEPT !.type = b.rep, !.value = b]
    /\ store_ret' = NoRet
    /\ insertion_order' = IF SetDynValue(b) = Panic THEN insertion_order
                          ELSE Inserted(insertion_order, effective_type_path(b.rep, type_registry))
    /\ UNCHANGED <<type_registry, document, serialized_map, read_map, codec_op, fsVars, appVars, guardVars>>

\* PreferencesSerializableMap::take of a registered type.
StoreTake(t) ==
    /\ t \in type_registry
    /\ effective_type_path(t, type_registry) # PanicKey
    /\ written_map' = MapTakeRest(written_map, type_registry, t)
    /\ store_op' = "take"
    /\ store_arg' = [NoArg EXCEPT !.type = t]
    /\ store_ret' = [NoRet EXCEPT !.value = MapTakeValue(written_map, type_registry, t)]
    /\ insertion_order' = Removed(insertion_order, effective_type_path(t, type_registry))
    /\ UNCHANGED <<type_registry, document, serialized_map, read_map, codec_op, fsVars, appVars, guardVars>>

\* The accessors that resolve the key of a type.
Accessors == {"set", "get", "get_mut", "take"}

\* set, get, get_mut or take of a type that is not registered: the key is
\* resolved first, and a resolution that panics ends the call there.
StoreUnregistered(op, t) ==
    /\ t \notin type_registry
    /\ LET k == effective_type_path(t, type_registry)
       IN  /\ written_map' = IF k = PanicKey THEN written_map
                             ELSE IF op = "set" THEN Insert(written_map, k, DefaultValue(t))
                             ELSE IF op = "take" THEN Remove(written_map, k)
                             ELSE written_map
           /\ store_op' = IF k = PanicKey THEN "abort" ELSE op
           /\ store_arg' = [NoArg EXCEPT !.type = t,
                                         !.value = IF op = "set" THEN DefaultValue(t) ELSE None]
           /\ store_ret' = IF k # PanicKey /\ op # "set" /\ k \in DOMAIN written_map
                           THEN [NoRet EXCEPT !.value = written_map[k]]
                           ELSE NoRet
           /\ insertion_order' = IF k = PanicKey THEN insertion_order
                                 ELSE IF op = "set" THEN Inserted(insertion_order, k)
                                 ELSE IF op = "take" THEN Removed(insertion_order, k)
                                 ELSE insertion_order
    /\ UNCHANGED <<type_registry, document, serialized_map, read_map, codec_op, fsVars, appVars, guardVars>>

\* Serialize for PreferencesSerializableMap.
StoreSerialize ==
    /\ store_op' = "serialize"
    /\ store_arg' = NoArg
    /\ store_ret' = [NoRet EXCEPT !.doc = Serialize(written_map),
                                  !.entries = SerializeEntries(written_map)]
    /\ UNCHANGED <<codecVars, insertion_order, fsVars, appVars, guardVars>>

\* PreferencesSerializableMapSeed::deserialize of a document; the map it gives
\* is the one the next operations work on.
StoreDeserialize(doc) ==
    /\ written_map' = IF Deserialize(type_registry, doc).ok
                      THEN Deserialize(type_registry, doc).values ELSE written_map
    /\ store_op' = "deserialize"
    /\ store_arg' = [NoArg EXCEPT !.doc = doc]
    /\ store_ret' = [NoRet EXCEPT !.read = Deserialize(type_registry, doc)]
    /\ insertion_order' = IF Deserialize(type_registry, doc).ok
                          THEN SortedKeys(doc) ELSE insertion_order
    /\ UNCHANGED <<type_registry, document, serialized_map, read_map, codec_op, fsVars, appVars, guardVars>>

\* The dynamic values given to from_dynamic_values: a Foo and a Bar of which
\* the Bar lacks its field, of which both convert, of which the Foo has a
\* value of another type in field.
DynamicMaps ==
    { [k \in {"Bar", "Foo"} |->
          IF k = "Foo" THEN Boxed(TRUE, "Foo", FooEntry(1, 1)) ELSE Boxed(TRUE, "Bar", <<>>)],
      [k \in {"Bar", "Foo"} |->
          IF k = "Foo" THEN Boxed(TRUE, "Foo", [n \in {"field"} |-> 1])
          ELSE Boxed(TRUE, "Bar", BarEntry(1))],
      [k \in {"Bar", "Foo"} |->
          IF k = "Foo" THEN Boxed(TRUE, "Foo", FooEntry(WrongType, 1))
          ELSE Boxed(TRUE, "Bar", BarEntry(1))] }

\* What from_dynamic_values returns: the map of the converted values, or
\* nothing when a conversion panics.
FromDynamicValuesResult(dyn) ==
    IF \E k \in DOMAIN dyn : apply_from_reflect(dyn[k]) = Panic
    THEN [ok |-> FALSE, err |-> "PANIC"]
    ELSE [ok |-> TRUE, values |-> from_dynamic_values(dyn)]

\* PreferencesSerializableMap::from_dynamic_values on values of registered
\* types, each given under the effective type path of its type.
StoreFromDynamicValues(dyn) ==
    /\ \A k \in DOMAIN dyn : /\ dyn[k].rep \in type_registry
                             /\ k = effective_type_path(dyn[k].rep, type_registry)
    /\ written_map' = IF FromDynamicValuesResult(dyn).ok
                      THEN FromDynamicValuesResult(dyn).values ELSE written_map
    /\ store_op' = "from_dynamic_values"
    /\ store_arg' = [NoArg EXCEPT !.dyn = dyn]
    /\ store_ret' = [NoRet EXCEPT !.read = FromDynamicValuesResult(dyn)]
    /\ insertion_order' = IF FromDynamicValuesResult(dyn).ok
                          THEN SortedKeys(dyn) ELSE insertion_order
    /\ UNCHANGED <<type_registry, document, serialized_map, read_map, codec_op, fsVars, appVars, guardVars>>

\* map == other.
StoreEq(other) ==
    /\ store_op' = "eq"
    /\ store_arg' = [NoArg EXCEPT !.other = other]
    /\ store_ret' = [NoRet EXCEPT !.eq = MapEq(written_map, other)]
    /\ UNCHANGED <<codecVars, insertion_order, fsVars, appVars, guardVars>>

(***************************************************************************)
(* SpecFs: FileStorage::save_preferences and write_atomically              *)
(***************************************************************************)

\* Longest document body of the file model, in bytes.
MaxBodyLen == 1

DestPath == "dest"

Absent == [exists |-> FALSE, bytes |-> <<>>]
File(bytes) == [exists |-> TRUE, bytes |-> bytes]

Bodies == UNION {[1..n -> {1, 2}] : n \in 0..MaxBodyLen}

\* What serialize_preferences can return: a body and the closing byte 0, so a
\* cut document is never a complete one.
Outputs == {Append(b, 0) : b \in Bodies}

Complete(file) ==
    file.exists => (Len(file.bytes) > 0 /\ file.bytes[Len(file.bytes)] = 0)

\* A mutant of the temporary file: the destination itself is opened and written.
TempFileInPlace(path) == path

\* NamedTempFile::new_in(parent): a new file beside the destination.
NamedTempFilePath(path) == "tmp"

TempPath == NamedTempFilePath(DestPath)

FsAtRest == fs_pc \in {"idle", "ok", "err", "crashed"}
FsInProgress == fs_pc \in {"serialized", "created", "written", "synced"}

\* save_preferences: serialize_preferences succeeded.
FsSerialize(out) ==
    /\ FsAtRest
    /\ output' = out
    /\ fs_prev' = files[DestPath]
    /\ fs_pc' = "serialized"
    /\ UNCHANGED <<files, fs_read, codecVars, storeVars, appVars, guardVars>>

\* save_preferences: serialize_preferences returned an error.
FsSerializeError ==
    /\ FsAtRest
    /\ fs_prev' = files[DestPath]
    /\ fs_pc' = "err"
    /\ UNCHANGED <<files, output, fs_read, codecVars, storeVars, appVars, guardVars>>

\* write_atomically: NamedTempFile::new_in.
FsCreateTemp ==
    /\ fs_pc = "serialized"
    /\ files' = [files EXCEPT ![TempPath] = File(<<>>)]
    /\ fs_pc' = "created"
    /\ UNCHANGED <<output, fs_prev, fs_read, codecVars, storeVars, appVars, guardVars>>

FsCreateTempError ==
    /\ fs_pc = "serialized"
    /\ fs_pc' = "err"
    /\ UNCHANGED <<files, output, fs_prev, fs_read, codecVars, storeVars, appVars, guardVars>>

\* write_all: the next byte reaches the temporary file.
FsWrite ==
    /\ fs_pc = "created"
    /\ LET had == files[TempPath].bytes
           now == Append(had, output[Len(had) + 1])
       IN  /\ Len(had) < Len(output)
           /\ files' = [files EXCEPT ![TempPath] = File(now)]
           /\ fs_pc' = IF Len(now) = Len(output) THEN "written" ELSE "created"
    /\ UNCHANGED <<output, fs_prev, fs_read, codecVars, storeVars, appVars, guardVars>>

\* write_all, sync_all or persist returns an error: the NamedTempFile is
\* dropped, which removes the file.
FsFail(at) ==
    /\ fs_pc = at
    /\ files' = [files EXCEPT ![TempPath] = Absent]
    /\ fs_pc' = "err"
    /\ UNCHANGED <<output, fs_prev, fs_read, codecVars, storeVars, appVars, guardVars>>

FsSyncAll ==
    /\ fs_pc = "written"
    /\ fs_pc' = "synced"
    /\ UNCHANGED <<files, output, fs_prev, fs_read, codecVars, storeVars, appVars, guardVars>>

\* persist: the temporary file is renamed over the destination in one step.
FsPersist ==
    /\ fs_pc = "synced"
    /\ files' = [p \in DOMAIN files |->
                   IF p = DestPath THEN files[TempPath]
                   ELSE IF p = TempPath THEN Absent
                   ELSE files[p]]
    /\ fs_pc' = "ok"
    /\ UNCHANGED <<output, fs_prev, fs_read, codecVars, storeVars, appVars, guardVars>>

\* The process dies between two steps: nothing is cleaned up.
FsCrash ==
    /\ FsInProgress
    /\ fs_pc' = "crashed"
    /\ UNCHANGED <<files, output, fs_prev, fs_read, codecVars, storeVars, appVars, guardVars>>

\* load_preferences of any process: read_to_string of the destination.
FsRead ==
    /\ fs_read' = files[DestPath]
    /\ UNCHANGED <<files, fs_pc, output, fs_prev, codecVars, storeVars, appVars, guardVars>>

(***************************************************************************)
(* Spec: an application with PreferencesPlugin and two registered types     *)
(***************************************************************************)

\* Updates the application runs, over all its runs.
MaxFrames == 3
\* Runs of the application on the same storage.
MaxRuns == 2
\* Time units per second; an update lasts at most one second.
UnitsPerSec == 2
\* save_preferences holds a save while as_secs() of the time since the last is below this.
MinSaveIntervalSecs == 1
\* A system that never ran has a last_run older than every change.
NeverRun == 0

\* register_preferences::<Foo>() and register_preferences_with_default_value(Bar(1)).
AppRegistry == {"Foo", "Bar"}

RegisteredDefault(t) ==
    IF t = "Foo" THEN DefaultValue(t)
    ELSE [type |-> t, fields |-> [n \in FieldNames(t) |-> 1]]

\* Duration::as_secs: whole seconds.
AsSecs(d) == d \div UnitsPerSec

\* Tick::is_newer_than.
IsNewerThan(tick, last_run, this_run) == (this_run - last_run) > (this_run - tick)

NoMap == [exists |-> FALSE, values |-> EmptyValues, changed |-> 0]

Missing == [state |-> "missing", doc |-> <<>>]
Garbage == [state |-> "garbage", doc |-> <<>>]
Stored(doc) == [state |-> "doc", doc |-> doc]

\* What an earlier version of the application may have left in the storage.
InitialDisks ==
    { Missing,
      Garbage,
      Stored([k \in {"Foo"} |-> [field |-> 1, option |-> 1]]),
      Stored([k \in {"Foo", "Gone"} |->
                IF k = "Foo" THEN [field |-> 1, option |-> 1] ELSE [x \in {"0"} |-> 1]]) }

\* The documents of SpecStartup: those of InitialDisks, a document that keys
\* Foo by its full path, and a document with an entry of each registered type.
StartupDisks ==
    InitialDisks \cup
    { Stored([k \in {"tests::Foo"} |-> [field |-> 1, option |-> 1]]),
      Stored([k \in {"Foo", "Bar"} |->
                IF k = "Foo" THEN [field |-> 1, option |-> 0] ELSE [x \in {"0"} |-> 0]]) }

NoValues == [t \in AppRegistry |-> None]

\* The systems of the registered types conflict on the map, so the executor
\* runs them one after another; their effects commute, so one order is explored.
NextRegistered(finished) ==
    IF "Foo" \notin finished THEN "Foo" ELSE "Bar"

\* The values the application's systems assign.
AssignedValues(t) ==
    IF t = "Foo" THEN {v \in ValuesOf(t) : v.fields["field"] = 1}
    ELSE {v \in ValuesOf(t) : v.fields["0"] = 0}

FreshHist(prev_assigned, prev_exit_save, prev_failed, prev_storage) ==
    [ frame_in_run |-> 0,        \* updates begun in this run
      load |-> "none",           \* how load_preferences ended
      save_calls |-> 0,          \* save_preferences of the backend invoked in this update
      save_result |-> "none",    \* and what it returned
      saved_events |-> 0,        \* PreferencesSaved events sent in this update
      dirty_at_save |-> FALSE,   \* is_modified when save_preferences ran in this update
      since_save |-> 0,          \* time since the previous save invocation, then
      mutated |-> FALSE,         \* the application assigned a preference in this run
      mutated_now |-> FALSE,     \* ... in this update
      pending |-> 0,             \* assignments since the last save invocation
      pending_before |-> 0,      \* ... when save_preferences ran in this update
      burst_start |-> 0,         \* time of the first assignment of the current burst
      burst_open |-> FALSE,      \* an assignment of the burst awaits a save call
      burst_saves |-> 0,         \* save calls that carried assignments of the burst
      last_assign |-> 0,         \* time of the last assignment
      spaced |-> TRUE,           \* the pending assignments are each more than the
                                 \* minimum interval after the one before
      spaced_before |-> TRUE,    \* ... when save_preferences ran in this update
      failed |-> FALSE,          \* a save of this run returned an error
      prev_failed |-> prev_failed,       \* the same of the previous run
      assigned |-> NoValues,     \* the last value assigned to each type in this run
      loaded |-> {},             \* the types whose initial value was taken from the map
      prev_assigned |-> prev_assigned,   \* the same of the previous run
      prev_exit_save |-> prev_exit_save, \* save_result of the previous run's last update
      prev_storage |-> prev_storage ]    \* the previous run had a storage backend

\* load_preferences of the storage backend: read, parse, deserialize.
LoadResult(d, io_error) ==
    IF io_error THEN [ok |-> FALSE, err |-> "io"]
    ELSE IF d.state = "missing" THEN [ok |-> FALSE, err |-> "notfound"]
    ELSE IF d.state = "garbage" THEN [ok |-> FALSE, err |-> "format"]
    ELSE Deserialize(AppRegistry, d.doc)

\* load_preferences: create_storage gives no storage (NoStorage, or the
\* directory cannot be created): nothing is loaded, no resource is inserted.
LoadWithoutStorage ==
    /\ pc = "Load"
    /\ pc' = "PreStartup"
    /\ change_tick' = change_tick + 1
    /\ hist' = [hist EXCEPT !.load = "nostorage"]
    /\ UNCHANGED <<run, frames, storage_type, disk, storage, preferences, resource,
                   resource_changed, done, last_save_tick, last_save_time, elapsed,
                   app_exit, codecVars, storeVars, fsVars, guardVars>>

\* load_preferences with a storage: the loaded map, or an empty one on any
\* error, and the storage are inserted.
LoadPreferences(io_error) ==
    /\ pc = "Load"
    /\ storage_type = "File"
    /\ LET r == LoadResult(disk, io_error)
       IN  /\ IF r.ok THEN TRUE ELSE r.err # "PANIC"
           /\ preferences' = [exists |-> TRUE,
                              values |-> IF r.ok THEN r.values ELSE EmptyValues,
                              changed |-> change_tick + 1]
           /\ hist' = [hist EXCEPT !.load = IF r.ok THEN "ok" ELSE r.err]
    /\ storage' = TRUE
    /\ change_tick' = change_tick + 1
    /\ pc' = "PreStartup"
    /\ UNCHANGED <<run, frames, storage_type, disk, resource, resource_changed, done,
                   last_save_tick, last_save_time, elapsed, app_exit, codecVars, storeVars, fsVars, guardVars>>

\* A mutant of the initial value: Default::default() instead of the value the
\* type was registered with.
InitialValueTypeDefault(stored_value, t) ==
    IF stored_value # None THEN stored_value ELSE DefaultValue(t)

\* stored_value.unwrap_or_else(|| default_value.take()).
InitialValue(stored_value, t) ==
    IF stored_value # None THEN stored_value ELSE RegisteredDefault(t)

\* RegisteredPreferencesPlugin::<T>::assign_initial_value.
assign_initial_value(t) ==
    /\ pc = "PreStartup"
    /\ t \notin done
    /\ t = NextRegistered(done)
    /\ LET stored_value == IF preferences.exists
                           THEN MapTakeValue(preferences.values, AppRegistry, t)
                           ELSE None
           value == InitialValue(stored_value, t)
       IN  /\ resource' = [resource EXCEPT ![t] = value]
           /\ resource_changed' = [resource_changed EXCEPT ![t] = TRUE]
           /\ hist' = [hist EXCEPT !.loaded = IF stored_value # None THEN @ \cup {t} ELSE @]
    /\ preferences' = IF preferences.exists
                      THEN [preferences EXCEPT
                              !.values = MapTakeRest(preferences.values, AppRegistry, t),
                              !.changed = change_tick + 1]
                      ELSE preferences
    /\ change_tick' = change_tick + 1
    /\ done' = IF done \cup {t} = AppRegistry THEN {} ELSE done \cup {t}
    /\ pc' = IF done \cup {t} = AppRegistry THEN "First" ELSE "PreStartup"
    /\ UNCHANGED <<run, frames, storage_type, disk, storage, last_save_tick,
                   last_save_time, elapsed, app_exit, codecVars, storeVars, fsVars, guardVars>>

\* time_system in First: the first update of a run has elapsed 0.
TimeSystem(dt) ==
    /\ pc = "First"
    /\ frames < MaxFrames
    /\ dt = 0 <=> hist.frame_in_run = 0
    /\ frames' = frames + 1
    /\ elapsed' = elapsed + dt
    /\ app_exit' = FALSE
    /\ hist' = [hist EXCEPT !.frame_in_run = @ + 1, !.save_calls = 0, !.saved_events = 0,
                            !.save_result = "none", !.dirty_at_save = FALSE,
                            !.since_save = 0, !.mutated_now = FALSE,
                            !.pending_before = 0, !.spaced_before = TRUE]
    /\ pc' = "Update"
    /\ UNCHANGED <<run, storage_type, disk, storage, preferences, resource,
                   resource_changed, done, change_tick, last_save_tick, last_save_time,
                   codecVars, storeVars, fsVars, guardVars>>

\* A system of the application in Update that leaves the preferences alone.
UpdateIdle ==
    /\ pc = "Update"
    /\ pc' = "PostUpdate"
    /\ UNCHANGED <<run, frames, storage_type, disk, storage, preferences, resource,
                   resource_changed, done, change_tick, last_save_tick, last_save_time,
                   elapsed, app_exit, hist, codecVars, storeVars, fsVars, guardVars>>

\* A system of the application in Update assigns through Preferences<T>
\* (DerefMut marks the resource changed).
UpdateAssign(t, v) ==
    /\ pc = "Update"
    /\ resource' = [resource EXCEPT ![t] = v]
    /\ resource_changed' = [resource_changed EXCEPT ![t] = TRUE]
    /\ change_tick' = change_tick + 1
    /\ LET same == hist.burst_open \/ hist.burst_saves > 0
           in_burst == same /\ AsSecs(elapsed - hist.burst_start) < MinSaveIntervalSecs
       IN  hist' = [hist EXCEPT !.mutated = TRUE, !.mutated_now = TRUE,
                                !.pending = @ + 1,
                                !.last_assign = elapsed,
                                !.spaced = IF hist.pending = 0 THEN TRUE
                                           ELSE @ /\ elapsed - hist.last_assign >
                                                       MinSaveIntervalSecs * UnitsPerSec,
                                !.assigned = [@ EXCEPT ![t] = v],
                                !.burst_start = IF in_burst THEN @ ELSE elapsed,
                                !.burst_saves = IF in_burst THEN @ ELSE 0,
                                !.burst_open = TRUE]
    /\ pc' = "PostUpdate"
    /\ UNCHANGED <<run, frames, storage_type, disk, storage, preferences, done,
                   last_save_tick, last_save_time, elapsed, app_exit, codecVars, storeVars, fsVars, guardVars>>

\* A system in PostUpdate may send AppExit.
PostUpdateSystem(exit) ==
    /\ pc = "PostUpdate"
    /\ app_exit' = exit
    /\ pc' = "Last"
    /\ UNCHANGED <<run, frames, storage_type, disk, storage, preferences, resource,
                   resource_changed, done, change_tick, last_save_tick, last_save_time,
                   elapsed, hist, codecVars, storeVars, fsVars, guardVars>>

LastDone(t) == IF done \cup {t} = AppRegistry THEN {} ELSE done \cup {t}
LastPc(t) == IF done \cup {t} = AppRegistry THEN "Save" ELSE "Last"

\* A mutant of the run condition: the map is not asked for.
SetConditionNoMapCheck(t) == resource_changed[t]

\* A mutant of the run condition: the insertion of the resource at startup
\* does not count as a change.
SetConditionNotWhenAdded(t) ==
    resource_changed[t] /\ preferences.exists /\ hist.assigned[t] # None

\* A mutant of the run condition: a change made in this update is not seen.
SetConditionMissesFreshChange(t) ==
    resource_changed[t] /\ preferences.exists /\ ~hist.mutated_now

\* The run condition of set_reflect_map_value: preferences_changed::<T> and then
\* resource_exists::<PreferencesSerializableMap>.
SetCondition(t) == resource_changed[t] /\ preferences.exists

\* set_reflect_map_value in Last, before Save: the value is cloned into the map.
set_reflect_map_value(t) ==
    /\ pc = "Last"
    /\ t \notin done
    /\ t = NextRegistered(done)
    /\ SetCondition(t)
    /\ preferences' = [preferences EXCEPT
                         !.values = MapSet(preferences.values, AppRegistry, resource[t]),
                         !.changed = change_tick + 1]
    /\ resource_changed' = [resource_changed EXCEPT ![t] = FALSE]
    /\ change_tick' = change_tick + 1
    /\ done' = LastDone(t)
    /\ pc' = LastPc(t)
    /\ UNCHANGED <<run, frames, storage_type, disk, storage, resource, last_save_tick,
                   last_save_time, elapsed, app_exit, hist, codecVars, storeVars, fsVars, guardVars>>

\* The run condition is false: the system is skipped.
SetSkipped(t) ==
    /\ pc = "Last"
    /\ t \notin done
    /\ t = NextRegistered(done)
    /\ ~SetCondition(t)
    /\ resource_changed' = [resource_changed EXCEPT ![t] = FALSE]
    /\ done' = LastDone(t)
    /\ pc' = LastPc(t)
    /\ UNCHANGED <<run, frames, storage_type, disk, storage, preferences, resource,
                   change_tick, last_save_tick, last_save_time, elapsed, app_exit, hist,
                   codecVars, storeVars, fsVars, guardVars>>

\* last_save_tick.get_or_insert_with(|| system_change_tick.last_run()).
LastSaveTick == IF last_save_tick.some THEN last_save_tick.tick ELSE NeverRun

\* is_modified of save_preferences, for a run at this_run.
is_modified(this_run) == IsNewerThan(preferences.changed, LastSaveTick, this_run)

\* A mutant of the save decision: the shutdown signal does not override the hold.
ShouldTriggerSaveNoOverride(modified, since, exit) ==
    modified /\ ~(AsSecs(since) < MinSaveIntervalSecs)

\* A mutant of the save decision: nothing is held.
ShouldTriggerSaveNoHold(modified, since, exit) == modified

\* should_trigger_save of save_preferences.
should_trigger_save(modified, since, exit) ==
    LET held == modified /\ AsSecs(since) < MinSaveIntervalSecs
        after_hold == modified /\ ~held
    IN  IF exit /\ modified THEN TRUE ELSE after_hold

\* A mutant of the debounce: the interval is taken from the last assignment.
DurationSinceLastAssign == elapsed - hist.last_assign

\* duration_since_last_save of save_preferences: time.elapsed() - *last_save_time.
duration_since_last_save == elapsed - last_save_time

\* The run ends after the update in which AppExit was sent.
AfterSave == IF app_exit THEN "Exited" ELSE "First"

\* A mutant of the notification: sent after every save call.
PreferencesSavedAlways(calls, result) == calls

\* The PreferencesSaved events that save_preferences sends: send_default() in
\* the branch where the save did not fail.
PreferencesSavedSent(calls, result) == IF calls > 0 /\ result = "ok" THEN 1 ELSE 0

HistAtSave(modified, calls, result) ==
    [hist EXCEPT !.dirty_at_save = modified,
                 !.saved_events = PreferencesSavedSent(calls, result),
                 !.since_save = elapsed - last_save_time,
                 !.save_calls = calls,
                 !.save_result = result,
                 !.pending_before = hist.pending,
                 !.spaced_before = hist.spaced,
                 !.failed = @ \/ result = "err",
                 !.pending = IF calls > 0 THEN 0 ELSE @,
                 !.burst_saves = IF calls > 0 /\ hist.burst_open THEN @ + 1 ELSE @,
                 !.burst_open = IF calls > 0 THEN FALSE ELSE @]

SaveRuns == pc = "Save" /\ storage /\ preferences.exists

\* save_preferences decides not to save.
SaveNotTriggered ==
    /\ SaveRuns
    /\ LET modified == is_modified(change_tick + 1)
       IN  /\ ~should_trigger_save(modified, duration_since_last_save, app_exit)
           /\ hist' = HistAtSave(modified, 0, "none")
    /\ last_save_tick' = [some |-> TRUE, tick |-> LastSaveTick]
    /\ change_tick' = change_tick + 1
    /\ pc' = AfterSave
    /\ UNCHANGED <<run, frames, storage_type, disk, storage, preferences, resource,
                   resource_changed, done, last_save_time, elapsed, app_exit,
                   codecVars, storeVars, fsVars, guardVars>>

\* save_preferences saves: the backend replaces the document, or fails and
\* leaves it; last_save_tick and last_save_time are set in both cases.
SaveTriggered(ok) ==
    /\ SaveRuns
    /\ LET modified == is_modified(change_tick + 1)
       IN  /\ should_trigger_save(modified, duration_since_last_save, app_exit)
           /\ hist' = HistAtSave(modified, 1, IF ok THEN "ok" ELSE "err")
    /\ disk' = IF ok THEN Stored(Serialize(preferences.values)) ELSE disk
    /\ last_save_tick' = [some |-> TRUE, tick |-> preferences.changed]
    /\ last_save_time' = elapsed
    /\ change_tick' = change_tick + 1
    /\ pc' = AfterSave
    /\ UNCHANGED <<run, frames, storage_type, storage, preferences, resource,
                   resource_changed, done, elapsed, app_exit, codecVars, storeVars, fsVars, guardVars>>

\* The run condition of save_preferences is false: no storage, or no map.
SaveSkipped ==
    /\ pc = "Save"
    /\ ~(storage /\ preferences.exists)
    /\ pc' = AfterSave
    /\ UNCHANGED <<run, frames, storage_type, disk, storage, preferences, resource,
                   resource_changed, done, change_tick, last_save_tick, last_save_time,
                   elapsed, app_exit, hist, codecVars, storeVars, fsVars, guardVars>>

Min(a, b) == IF a < b THEN a ELSE b

\* The longest time since the previous save that SpecLive tells apart: every
\* longer one is past the minimum interval just the same.
SinceCap == MinSaveIntervalSecs * UnitsPerSec

\* The place of a tick among the two markers save_preferences compares.
TickRank(tick) == IF tick = Min(preferences.changed, LastSaveTick) THEN 0 ELSE 1

\* time_system in First, for a run of any length (SpecLive). Times are kept
\* relative to the previous save and ticks relative to the older of the two
\* markers, which keeps every comparison of save_preferences as it is; the
\* history of bursts and of the count of updates is not kept.
LiveTimeSystem(dt) ==
    /\ pc = "First"
    /\ dt = 0 <=> hist.frame_in_run = 0
    /\ elapsed' = Min(elapsed - last_save_time + dt, SinceCap)
    /\ last_save_time' = 0
    /\ preferences' = [preferences EXCEPT !.changed = TickRank(preferences.changed)]
    /\ last_save_tick' = [last_save_tick EXCEPT !.tick = TickRank(LastSaveTick)]
    /\ change_tick' = 2
    /\ app_exit' = FALSE
    /\ hist' = [hist EXCEPT !.frame_in_run = 1, !.save_calls = 0, !.saved_events = 0,
                            !.save_result = "none", !.dirty_at_save = FALSE,
                            !.since_save = 0, !.mutated_now = FALSE,
                            !.pending = Min(@, 1),
                            !.pending_before = 0, !.spaced_before = TRUE,
                            !.burst_start = 0, !.burst_open = FALSE, !.burst_saves = 0,
                            !.last_assign = 0, !.spaced = TRUE]
    /\ pc' = "Update"
    /\ UNCHANGED <<run, frames, storage_type, disk, storage, resource, resource_changed,
                   done, codecVars, storeVars, fsVars, guardVars>>

\* The application is started again with the same plugins on the same storage.
Restart ==
    /\ pc = "Exited"
    /\ run < MaxRuns
    /\ run' = run + 1
    /\ pc' = "Load"
    /\ storage' = FALSE
    /\ preferences' = NoMap
    /\ resource' = NoValues
    /\ resource_changed' = [t \in AppRegistry |-> FALSE]
    /\ done' = {}
    /\ change_tick' = 1
    /\ last_save_tick' = [some |-> FALSE, tick |-> 0]
    /\ last_save_time' = 0
    /\ elapsed' = 0
    /\ app_exit' = FALSE
    /\ hist' = FreshHist(hist.assigned, hist.save_result, hist.failed, storage)
    /\ UNCHANGED <<frames, storage_type, disk, codecVars, storeVars, fsVars, guardVars>>

(***************************************************************************)
(* Specifications                                                          *)
(***************************************************************************)

(***************************************************************************)
(* SpecGuard: Preferences::mutate and its guard (param.rs)                 *)
(***************************************************************************)

MaxScopes == 3

NoGuard == [open |-> FALSE, type |-> NoType, value |-> None]

\* The ways a scope that holds a guard is left.
ExitPaths == {"end", "return"}

GuardIdle ==
    /\ guard = NoGuard
    /\ commands = <<>>
    /\ scope_hist = [opened |-> 0, queued |-> 0, early |-> FALSE, op |-> "new",
                     type |-> NoType, released |-> [t \in AppRegistry |-> None]]

\* Preferences::mutate: the guard borrows last_value, which is set to a clone
\* of the entry of T.
Mutate(t) ==
    /\ ~guard.open
    /\ scope_hist.opened < MaxScopes
    /\ MapGet(written_map, type_registry, t) # None
    /\ guard' = [open |-> TRUE, type |-> t, value |-> MapGet(written_map, type_registry, t)]
    /\ scope_hist' = [scope_hist EXCEPT !.opened = @ + 1, !.op = "mutate", !.type = t]
    /\ UNCHANGED <<commands, codecVars, storeVars, fsVars, appVars>>

\* DerefMut of the guard: the scope assigns to the value.
GuardDerefMut(v) ==
    /\ guard.open
    /\ v \in ValuesOf(guard.type)
    /\ v # guard.value
    /\ guard' = [guard EXCEPT !.value = v]
    /\ scope_hist' = [scope_hist EXCEPT !.op = "deref_mut"]
    /\ UNCHANGED <<commands, codecVars, storeVars, fsVars, appVars>>

\* A mutant of Drop: a scope left by an early return queues nothing.
CommandsAtDropAtEndOnly(cmds, g, exit) == IF exit = "end" THEN Append(cmds, g.value) ELSE cmds

\* Drop of the guard: commands.add(SetPreferencesCommand(value.clone())).
CommandsAtDrop(cmds, g, exit) == Append(cmds, g.value)

\* The scope is left by its end or by an early return: the guard is dropped.
GuardDrop(exit) ==
    /\ guard.open
    /\ commands' = CommandsAtDrop(commands, guard, exit)
    /\ guard' = NoGuard
    /\ scope_hist' = [scope_hist EXCEPT !.queued = @ + Len(commands') - Len(commands),
                                        !.early = @ \/ exit = "return",
                                        !.op = "drop",
                                        !.released = [@ EXCEPT ![guard.type] = guard.value]]
    /\ UNCHANGED <<codecVars, storeVars, fsVars, appVars>>

\* SetPreferencesCommand::apply of each queued command, in the order queued.
RECURSIVE ApplyCommands(_, _, _)
ApplyCommands(values, reg, cmds) ==
    IF cmds = <<>> THEN values
    ELSE ApplyCommands(MapSet(values, reg, Head(cmds)), reg, Tail(cmds))

\* The deferred commands of the system are applied after it has run.
ApplyDeferred ==
    /\ ~guard.open
    /\ commands # <<>>
    /\ written_map' = ApplyCommands(written_map, type_registry, commands)
    /\ commands' = <<>>
    /\ scope_hist' = [scope_hist EXCEPT !.op = "apply"]
    /\ UNCHANGED <<guard, type_registry, document, serialized_map, read_map, codec_op,
                   storeVars, fsVars, appVars>>

StoreIdle ==
    /\ store_op = "new"
    /\ store_arg = NoArg
    /\ store_ret = NoRet
    /\ insertion_order = <<>>
    /\ GuardIdle

CodecIdle ==
    /\ type_registry = {}
    /\ written_map = EmptyValues
    /\ document = NoDocument
    /\ serialized_map = EmptyValues
    /\ read_map = NotRead
    /\ codec_op = "new"

FsIdle ==
    /\ files = [p \in {DestPath, "tmp"} |-> Absent]
    /\ fs_pc = "idle"
    /\ output = <<0>>
    /\ fs_prev = Absent
    /\ fs_read = Absent

AppIdle ==
    /\ run = 1
    /\ frames = 0
    /\ pc = "Load"
    /\ storage_type = "NoStorage"
    /\ disk = Missing
    /\ storage = FALSE
    /\ preferences = NoMap
    /\ resource = NoValues
    /\ resource_changed = [t \in AppRegistry |-> FALSE]
    /\ done = {}
    /\ change_tick = 1
    /\ last_save_tick = [some |-> FALSE, tick |-> 0]
    /\ last_save_time = 0
    /\ elapsed = 0
    /\ app_exit = FALSE
    /\ hist = FreshHist(NoValues, "none", FALSE, FALSE)

\* App::new() with the plugin and the registrations, before the first update.
Init ==
    /\ CodecIdle
    /\ StoreIdle
    /\ FsIdle
    /\ run = 1
    /\ frames = 0
    /\ pc = "Load"
    /\ \/ storage_type = "File" /\ disk \in InitialDisks
       \/ storage_type = "NoStorage" /\ disk = Missing
    /\ storage = FALSE
    /\ preferences = NoMap
    /\ resource = NoValues
    /\ resource_changed = [t \in AppRegistry |-> FALSE]
    /\ done = {}
    /\ change_tick = 1
    /\ last_save_tick = [some |-> FALSE, tick |-> 0]
    /\ last_save_time = 0
    /\ elapsed = 0
    /\ app_exit = FALSE
    /\ hist = FreshHist(NoValues, "none", FALSE, FALSE)

Next ==
    \/ LoadWithoutStorage
    \/ \E io_error \in BOOLEAN : LoadPreferences(io_error)
    \/ \E t \in AppRegistry : assign_initial_value(t)
    \/ \E dt \in 0..UnitsPerSec : TimeSystem(dt)
    \/ UpdateIdle
    \/ \E t \in AppRegistry : \E v \in AssignedValues(t) : UpdateAssign(t, v)
    \/ \E exit \in BOOLEAN : PostUpdateSystem(exit)
    \/ \E t \in AppRegistry : set_reflect_map_value(t)
    \/ \E t \in AppRegistry : SetSkipped(t)
    \/ SaveNotTriggered
    \/ \E ok \in BOOLEAN : SaveTriggered(ok)
    \/ SaveSkipped
    \/ Restart

Spec == Init /\ [][Next]_vars

\* One run of the application, from each document a storage may hold.
StartupInit ==
    /\ CodecIdle
    /\ StoreIdle
    /\ FsIdle
    /\ run = 1
    /\ frames = 0
    /\ pc = "Load"
    /\ \/ storage_type = "File" /\ disk \in StartupDisks
       \/ storage_type = "NoStorage" /\ disk = Missing
    /\ storage = FALSE
    /\ preferences = NoMap
    /\ resource = NoValues
    /\ resource_changed = [t \in AppRegistry |-> FALSE]
    /\ done = {}
    /\ change_tick = 1
    /\ last_save_tick = [some |-> FALSE, tick |-> 0]
    /\ last_save_time = 0
    /\ elapsed = 0
    /\ app_exit = FALSE
    /\ hist = FreshHist(NoValues, "none", FALSE, FALSE)

StartupNext ==
    \/ LoadWithoutStorage
    \/ \E io_error \in BOOLEAN : LoadPreferences(io_error)
    \/ \E t \in AppRegistry : assign_initial_value(t)
    \/ \E dt \in 0..UnitsPerSec : TimeSystem(dt)
    \/ UpdateIdle
    \/ \E t \in AppRegistry : \E v \in AssignedValues(t) : UpdateAssign(t, v)
    \/ \E exit \in BOOLEAN : PostUpdateSystem(exit)
    \/ \E t \in AppRegistry : set_reflect_map_value(t)
    \/ \E t \in AppRegistry : SetSkipped(t)
    \/ SaveNotTriggered
    \/ \E ok \in BOOLEAN : SaveTriggered(ok)
    \/ SaveSkipped

SpecStartup == StartupInit /\ [][StartupNext]_vars

CodecInit ==
    /\ type_registry \in CodecRegistries
    /\ written_map = EmptyValues
    /\ document = NoDocument
    /\ serialized_map = EmptyValues
    /\ read_map = NotRead
    /\ codec_op = "new"
    /\ StoreIdle
    /\ FsIdle
    /\ AppIdle

CodecNext ==
    \/ \E t \in TypeIds : \E v \in ValuesOf(t) : CodecSet(t, v)
    \/ \E t \in TypeIds : CodecTake(t)
    \/ CodecSerialize
    \/ CodecDeserialize

SpecCodec == CodecInit /\ [][CodecNext]_vars

\* An application with the file storage, run for as long as no AppExit is sent.
LiveInit ==
    /\ CodecIdle
    /\ StoreIdle
    /\ FsIdle
    /\ run = 1
    /\ frames = 0
    /\ pc = "Load"
    /\ storage_type = "File"
    /\ disk \in InitialDisks
    /\ storage = FALSE
    /\ preferences = NoMap
    /\ resource = NoValues
    /\ resource_changed = [t \in AppRegistry |-> FALSE]
    /\ done = {}
    /\ change_tick = 1
    /\ last_save_tick = [some |-> FALSE, tick |-> 0]
    /\ last_save_time = 0
    /\ elapsed = 0
    /\ app_exit = FALSE
    /\ hist = FreshHist(NoValues, "none", FALSE, FALSE)

LiveNext ==
    \/ \E io_error \in BOOLEAN : LoadPreferences(io_error)
    \/ \E t \in AppRegistry : assign_initial_value(t)
    \/ \E dt \in 0..UnitsPerSec : LiveTimeSystem(dt)
    \/ UpdateIdle
    \/ \E t \in AppRegistry : \E v \in AssignedValues(t) : UpdateAssign(t, v)
    \/ \E exit \in BOOLEAN : PostUpdateSystem(exit)
    \/ \E t \in AppRegistry : set_reflect_map_value(t)
    \/ \E t \in AppRegistry : SetSkipped(t)
    \/ SaveNotTriggered
    \/ \E ok \in BOOLEAN : SaveTriggered(ok)

\* App::run calls update again and again until an AppExit is sent, and every
\* update runs its schedules to the end.
SpecLive == LiveInit /\ [][LiveNext]_vars /\ WF_vars(LiveNext)

StoreInit ==
    /\ type_registry \in CodecRegistries
    /\ written_map = EmptyValues
    /\ document = NoDocument
    /\ serialized_map = EmptyValues
    /\ read_map = NotRead
    /\ codec_op = "new"
    /\ store_op = "new"
    /\ store_arg = NoArg
    /\ store_ret = NoRet
    /\ insertion_order = <<>>
    /\ GuardIdle
    /\ FsIdle
    /\ AppIdle

StoreNext ==
    \/ \E t \in TypeIds : \E v \in ValuesOf(t) : StoreSet(t, v)
    \/ \E b \in BoxedValues : StoreSetDyn(b)
    \/ \E t \in TypeIds : StoreTake(t)
    \/ \E op \in Accessors : \E t \in TypeIds : StoreUnregistered(op, t)
    \/ StoreSerialize
    \/ \E doc \in StoreDocuments : StoreDeserialize(doc)
    \/ \E dyn \in DynamicMaps : StoreFromDynamicValues(dyn)
    \/ \E other \in OtherMaps : StoreEq(other)

SpecStore == StoreInit /\ [][StoreNext]_vars

FsInit ==
    /\ files = [p \in {DestPath, "tmp"} |-> Absent]
    /\ fs_pc = "idle"
    /\ output = <<0>>
    /\ fs_prev = Absent
    /\ fs_read = Absent
    /\ CodecIdle
    /\ StoreIdle
    /\ AppIdle

FsNext ==
    \/ \E out \in Outputs : FsSerialize(out)
    \/ FsSerializeError
    \/ FsCreateTemp
    \/ FsCreateTempError
    \/ FsWrite
    \/ FsSyncAll
    \/ FsPersist
    \/ \E at \in {"created", "written", "synced"} : FsFail(at)
    \/ FsCrash
    \/ FsRead

SpecFs == FsInit /\ [][FsNext]_vars

\* The map after registration: every registered type has its default.
GuardInit ==
    /\ type_registry = AppRegistry
    /\ written_map = [k \in {"Bar", "Foo"} |-> RegisteredDefault(k)]
    /\ document = NoDocument
    /\ serialized_map = EmptyValues
    /\ read_map = NotRead
    /\ codec_op = "new"
    /\ StoreIdle
    /\ FsIdle
    /\ AppIdle

GuardNext ==
    \/ \E t \in AppRegistry : Mutate(t)
    \/ \E v \in UNION {ValuesOf(t) : t \in AppRegistry} : GuardDerefMut(v)
    \/ \E exit \in ExitPaths : GuardDrop(exit)
    \/ ApplyDeferred

SpecGuard == GuardInit /\ [][GuardNext]_vars

(***************************************************************************)
(* Properties                                                              *)
(***************************************************************************)

\* The scheduler is Dirty: the map's change marker is newer than the last-saved marker.
Dirty == preferences.exists /\ is_modified(change_tick + 1)

\* save_preferences has just run (or been skipped) in the current update.
AfterSaveStep == pc \in {"First", "Exited"} /\ hist.frame_in_run > 0

\* C1: deserializing the serialized document of a map built with set, with the
\* same registry, succeeds and gives the map that was serialized: get::<T>()
\* returns the value set for every type, and there is no other entry.
RoundTrip ==
    codec_op = "deserialize" =>
        /\ read_map.ok
        /\ DOMAIN read_map.values = DOMAIN serialized_map
        /\ \A t \in type_registry :
              MapGet(read_map.values, type_registry, t) =
                  MapGet(serialized_map, type_registry, t)
        /\ read_map.values = serialized_map

RoundTripWitness ==
    /\ codec_op = "deserialize"
    /\ "AmbBar" \in type_registry
    /\ read_map.ok
    /\ MapGet(read_map.values, type_registry, "Bar") # None
    /\ MapGet(read_map.values, type_registry, "AmbBar") # None
    /\ MapGet(read_map.values, type_registry, "Foo") # None
    /\ MapGet(read_map.values, type_registry, "Foo") # DefaultValue("Foo")

\* C2: the value assigned to a type in a run that ended with AppExit is the
\* value its Preferences resource holds before the first update of the next run
\* on the same storage, when the exit update's save and the next load did not fail.
PersistenceAcrossRestart ==
    ( /\ run > 1
      /\ pc = "First"
      /\ hist.frame_in_run = 0
      /\ storage
      /\ hist.prev_storage
      /\ hist.prev_exit_save # "err"
      /\ hist.load = "ok" )
    => \A t \in AppRegistry :
          hist.prev_assigned[t] # None => resource[t] = hist.prev_assigned[t]

\* The same when no save of the previous run returned an error.
PersistenceWhenNoSaveFailed ==
    ( /\ run > 1
      /\ pc = "First"
      /\ hist.frame_in_run = 0
      /\ storage
      /\ hist.prev_storage
      /\ ~hist.prev_failed
      /\ hist.load = "ok" )
    => \A t \in AppRegistry :
          hist.prev_assigned[t] # None => resource[t] = hist.prev_assigned[t]

\* C3: in an update in which AppExit is observed, save_preferences invokes the
\* backend's save exactly once when the scheduler is Dirty, whatever the time
\* since the previous save, and not at all when it is not Dirty.
ShutdownFlush ==
    (pc = "Exited" /\ storage) =>
        hist.save_calls = IF hist.dirty_at_save THEN 1 ELSE 0

ShutdownFlushWitness ==
    /\ pc = "Exited"
    /\ storage
    /\ hist.dirty_at_save
    /\ hist.save_calls = 1
    /\ AsSecs(hist.since_save) < MinSaveIntervalSecs
    /\ last_save_time > 0

\* C4: in an update without AppExit, the backend's save is invoked only when at
\* least the minimum interval has passed since the previous save invocation; a
\* Dirty scheduler that runs sooner invokes no save and stays Dirty.
DebounceInterval ==
    (pc = "First" /\ hist.frame_in_run > 0 /\ storage) =>
        /\ hist.save_calls = 1 => AsSecs(hist.since_save) >= MinSaveIntervalSecs
        /\ (hist.dirty_at_save /\ AsSecs(hist.since_save) < MinSaveIntervalSecs) =>
              (hist.save_calls = 0 /\ Dirty)

DebounceIntervalWitness ==
    /\ pc = "First"
    /\ hist.frame_in_run > 0
    /\ storage
    /\ hist.mutated_now
    /\ hist.dirty_at_save
    /\ AsSecs(hist.since_save) < MinSaveIntervalSecs
    /\ last_save_time > 0
    /\ hist.save_calls = 0

NoSpuriousSave == hist.save_calls = 1 => hist.mutated

\* C7: after a save that returned an error the scheduler is still Dirty, and
\* the last-saved marker reaches the map's change marker only by a save that
\* returned Ok.
DirtyUntilSaved ==
    AfterSaveStep =>
        /\ hist.save_result = "err" => Dirty
        /\ (last_save_tick.some /\ last_save_tick.tick = preferences.changed
              /\ hist.save_calls = 1) => hist.save_result = "ok"

\* C8: during and after a save of the file backend the destination is the
\* document it was before the save, until the rename replaces it by the whole
\* new document; an error or a crash at any step leaves it as it was, and no
\* reader ever sees a cut document.
AtomicSave ==
    /\ fs_pc \in {"serialized", "created", "written", "synced", "err", "crashed"} =>
          files[DestPath] = fs_prev
    /\ fs_pc = "ok" => files[DestPath] = File(output)
    /\ Complete(files[DestPath])
    /\ Complete(fs_read)

AtomicSaveWitness ==
    /\ fs_pc = "crashed"
    /\ files[TempPath] = File(output)
    /\ fs_prev.exists
    /\ fs_prev.bytes # output
    /\ fs_read = fs_prev

\* C9: when load_preferences of the backend fails (not found, another I/O
\* error, a format or deserialization error), startup ends with the storage
\* installed, an empty map, and every registered type at its registered default.
LoadFailureStartup ==
    ( /\ pc = "First"
      /\ hist.frame_in_run = 0
      /\ hist.load \in {"notfound", "io", "format", "UnregisteredType", "Custom"} )
    => /\ storage
       /\ preferences.exists
       /\ preferences.values = EmptyValues
       /\ \A t \in AppRegistry : resource[t] = RegisteredDefault(t)

LoadFailureStartupWitness ==
    /\ pc = "First"
    /\ hist.frame_in_run = 0
    /\ hist.load = "format"
    /\ storage
    /\ resource["Bar"] = RegisteredDefault("Bar")
    /\ resource["Foo"] = RegisteredDefault("Foo")

\* C10: when the stored document has an entry of an unregistered type and an
\* entry of a registered type, startup gives the registered type its stored value.
UnregisteredEntryDropped ==
    ( /\ pc = "First"
      /\ hist.frame_in_run = 0
      /\ storage
      /\ disk.state = "doc"
      /\ \E k \in DOMAIN disk.doc : KeyRegistration(AppRegistry, k) = NoType )
    => \A t \in AppRegistry :
          LET k == effective_type_path(t, AppRegistry)
          IN  (k \in DOMAIN disk.doc /\ hist.load # "io") =>
                  SerializeValue(resource[t]) = disk.doc[k]


\* The keys of a document that name no registered type, by short path or by
\* full path.
UnregisteredKeys(reg, doc) ==
    {k \in DOMAIN doc : GetWithShortTypePath(reg, k) = NoType /\ GetWithTypePath(reg, k) = NoType}

\* The entries of a document whose fields are not all fields of the type their key names.
MalformedKeys(reg, doc) ==
    {k \in DOMAIN doc \ UnregisteredKeys(reg, doc) :
        ~(DOMAIN doc[k] \subseteq FieldNames(KeyRegistration(reg, k)))}

\* C11: deserialize resolves each key by the short path first and by the full
\* path second; a document with a key that names no registered type gives no
\* map: deserialization fails, with UnregisteredType when that key is the
\* document's only defect, and the entry is never passed over.
UnregisteredKeyFails ==
    store_op = "deserialize" =>
        LET doc == store_arg.doc
            read == store_ret.read
        IN  /\ UnregisteredKeys(type_registry, doc) # {} =>
                 /\ ~read.ok
                 /\ MalformedKeys(type_registry, doc) = {} => read.err = "UnregisteredType"
            /\ read.ok =>
                 \A k \in DOMAIN doc :
                    read.values[k].type =
                        IF GetWithShortTypePath(type_registry, k) # NoType
                        THEN GetWithShortTypePath(type_registry, k)
                        ELSE GetWithTypePath(type_registry, k)

\* A document with the key of a type that is gone was refused with
\* UnregisteredType, and the map is as it was.
UnregisteredKeyFailsWitness ==
    /\ store_op = "deserialize"
    /\ "Gone" \in DOMAIN store_arg.doc
    /\ ~store_ret.read.ok
    /\ store_ret.read.err = "UnregisteredType"

\* The default of a type with the fields an entry gives that the type has.
DefaultOverwritten(t, ser) ==
    [type |-> t,
     fields |-> [n \in FieldNames(t) |-> IF n \in DOMAIN ser THEN ser[n] ELSE DefaultValue(t).fields[n]]]

\* C12: a document whose keys all name registered types with a default
\* deserializes, whatever fields its entries have: an entry with a field the
\* type does not have and without a field the type has gives the type's
\* default with the recognized fields overwritten, and the load does not fail.
SchemaDriftTolerated ==
    (/\ store_op = "deserialize"
     /\ \A k \in DOMAIN store_arg.doc :
            /\ KeyRegistration(type_registry, k) # NoType
            /\ HasReflectDefault(KeyRegistration(type_registry, k)))
    => /\ store_ret.read.ok
       /\ \A k \in DOMAIN store_arg.doc :
            store_ret.read.values[k] =
                DefaultOverwritten(KeyRegistration(type_registry, k), store_arg.doc[k])

\* C13: when a dynamic value does not convert to its type and does not apply
\* onto the type's default either, the entry takes the default unchanged and
\* the operation completes.
CoercionFallsBackToDefault ==
    (/\ store_op \in {"set_dyn", "panic"}
     /\ store_arg.value.dynamic
     /\ FromReflect(store_arg.value) = None
     /\ HasReflectDefault(store_arg.type)
     /\ TryApply(DefaultValue(store_arg.type), store_arg.value) = None)
    => /\ store_op = "set_dyn"
       /\ MapGet(written_map, type_registry, store_arg.type) = DefaultValue(store_arg.type)

\* The other of the two types that share the short path Bar.
OtherBar(t) == IF t = "Bar" THEN "AmbBar" ELSE "Bar"

\* The value a set or set_dyn stores.
ValueSet(op, arg) == IF op = "set" THEN arg.value ELSE SetDynValue(arg.value)

\* C14: with two registered types that share a short path, setting a value
\* of one leaves the entry of the other as it was; when both are present they
\* are two entries keyed by the two full paths, the document carries each
\* value under its full path, and get of each type returns that type's value.
AmbiguousBothPresent ==
    [][(/\ {"Bar", "AmbBar"} \subseteq type_registry
        /\ store_op' \in {"set", "set_dyn"}
        /\ store_arg'.type \in {"Bar", "AmbBar"})
       => LET t == store_arg'.type
              o == OtherBar(store_arg'.type)
              own == MapGet(written_map', type_registry, t)
              other == MapGet(written_map', type_registry, o)
          IN  /\ own = ValueSet(store_op', store_arg')
              /\ other = MapGet(written_map, type_registry, o)
              /\ other # None =>
                    /\ {TypePath(t), TypePath(o)} \subseteq DOMAIN written_map'
                    /\ ShortTypePath(t) \notin DOMAIN Serialize(written_map')
                    /\ Serialize(written_map')[TypePath(t)] = SerializeValue(own)
                    /\ Serialize(written_map')[TypePath(o)] = SerializeValue(other)]_vars

\* ambiguous::Bar was set in a map that holds a Bar: the map holds both.
AmbiguousBothPresentWitness ==
    /\ {"Bar", "AmbBar"} \subseteq type_registry
    /\ store_op = "set"
    /\ store_arg.type = "AmbBar"
    /\ MapGet(written_map, type_registry, "Bar") # None
    /\ MapGet(written_map, type_registry, "AmbBar") = store_arg.value
    /\ MapGet(written_map, type_registry, "Bar").fields # store_arg.value.fields

\* The map holds a value of the type.
HoldsType(values, t) == \E k \in DOMAIN values : values[k].type = t

SameKeyEverywhere ==
    [][store_op' \in {"set", "set_dyn"}
       => LET t == store_arg'.type
              v == ValueSet(store_op', store_arg')
              k == effective_type_path(store_arg'.type, type_registry)
          IN  /\ MapGet(written_map', type_registry, t) = v
              /\ MapTakeValue(written_map', type_registry, t) = v
              /\ k \in DOMAIN Serialize(written_map')
              /\ Serialize(written_map')[k] = SerializeValue(v)
              /\ DOMAIN written_map' = DOMAIN written_map \cup {k}
              /\ \A k2 \in DOMAIN written_map' \ {k} :
                    Serialize(written_map')[k2] = Serialize(written_map)[k2]]_vars

\* A Bar was set, under its full path, in a map that holds another entry.
SameKeyEverywhereWitness ==
    /\ store_op = "set"
    /\ store_arg.type = "Bar"
    /\ effective_type_path("Bar", type_registry) = TypePath("Bar")
    /\ MapGet(written_map, type_registry, "Bar") = store_arg.value
    /\ Cardinality(DOMAIN written_map) >= 2

\* C17: in every map reached by set, set_dyn, take and deserialize no two
\* entries hold values of the same type.
OneEntryPerType ==
    \A k1, k2 \in DOMAIN written_map :
        written_map[k1].type = written_map[k2].type => k1 = k2

\* C18: two maps are equal exactly when they hold the same keys with equal
\* values; a map is not equal to a map with more entries, and the empty map
\* is equal to the empty map only.
StoreEquality ==
    store_op = "eq" => (store_ret.eq <=> written_map = store_arg.other)

\* C19: take of T removes the entry of T and returns its value: afterwards
\* get of T returns nothing, the map holds one entry fewer and every other
\* entry is as it was; without an entry of T, take returns nothing and the
\* map is as it was.
TakeRemoves ==
    [][store_op' = "take"
       => LET t == store_arg'.type
              k == effective_type_path(store_arg'.type, type_registry)
              before == MapGet(written_map, type_registry, store_arg'.type)
          IN  /\ store_ret'.value = before
              /\ MapGet(written_map', type_registry, t) = None
              /\ before # None =>
                    /\ Cardinality(DOMAIN written_map') = Cardinality(DOMAIN written_map) - 1
                    /\ DOMAIN written_map' = DOMAIN written_map \ {k}
                    /\ \A k2 \in DOMAIN written_map' : written_map'[k2] = written_map[k2]
                    /\ \A t2 \in type_registry \ {t} :
                          MapGet(written_map', type_registry, t2) =
                              MapGet(written_map, type_registry, t2)
              /\ before = None => written_map' = written_map]_vars

\* A value was taken out of a map that holds other entries.
TakeRemovesWitness ==
    /\ store_op = "take"
    /\ store_ret.value # None
    /\ store_ret.value.type = store_arg.type
    /\ written_map # EmptyValues
    /\ MapGet(written_map, type_registry, store_arg.type) = None

\* The map load_preferences gave in this run: the deserialized document, or
\* an empty map when there was no storage or the load failed.
LoadedValues ==
    IF hist.load = "ok" THEN Deserialize(AppRegistry, disk.doc).values ELSE EmptyValues

\* The values of a type that a map holds.
StoredFor(values, t) == {values[k] : k \in {x \in DOMAIN values : values[x].type = t}}

\* C20: at startup the Preferences value of each registered type is the value
\* the loaded map holds for the type when it holds one, and the default the
\* type was registered with otherwise.
InitialValueFromStore ==
    (pc = "First" /\ hist.frame_in_run = 0)
    => \A t \in AppRegistry :
          IF StoredFor(LoadedValues, t) # {}
          THEN resource[t] \in StoredFor(LoadedValues, t)
          ELSE resource[t] = RegisteredDefault(t)

\* C21: without persistence no storage and no map ever exist, no load and no
\* save of a backend happens on any update, the last one of a run included,
\* and each Preferences value is the registered default until the application
\* assigns it, and the assigned value afterwards.
NoPersistence ==
    storage_type = "NoStorage"
    => /\ ~storage
       /\ preferences = NoMap
       /\ hist.load \in {"none", "nostorage"}
       /\ hist.save_calls = 0
       /\ disk = Missing
       /\ pc \notin {"Load", "PreStartup"} =>
             \A t \in AppRegistry :
                resource[t] = IF hist.assigned[t] # None THEN hist.assigned[t]
                              ELSE RegisteredDefault(t)

\* A run without persistence ended after AppExit: Foo was assigned, Bar is
\* at its registered default.
NoPersistenceWitness ==
    /\ storage_type = "NoStorage"
    /\ pc = "Exited"
    /\ app_exit
    /\ hist.assigned["Foo"] # None
    /\ resource["Foo"] = hist.assigned["Foo"]
    /\ resource["Foo"] # RegisteredDefault("Foo")
    /\ resource["Bar"] = RegisteredDefault("Bar")

\* C22: set, get, get_mut or take of a type that is not registered panics:
\* the call ends without a result and without an error value, and the
\* entries of the map are as they were.
UnregisteredTypePanics ==
    [][store_arg'.type \notin type_registry \cup {NoType}
       => /\ store_op' = "abort"
          /\ store_ret' = NoRet
          /\ written_map' = written_map]_vars

\* An accessor of ambiguous::Bar, which is not registered, panicked on a map
\* that holds a Bar.
UnregisteredTypePanicsWitness ==
    /\ store_op = "abort"
    /\ store_arg.type = "AmbBar"
    /\ "AmbBar" \notin type_registry
    /\ HoldsType(written_map, "Bar")

\* C23: serialize emits one entry per entry of the map, with the map's key
\* and the entry's serialized value, in the order of the keys, whatever the
\* order in which the entries were inserted.
SerializeOrdered ==
    store_op = "serialize" =>
        LET e == store_ret.entries
        IN  /\ Len(e) = Cardinality(DOMAIN written_map)
            /\ {e[i].key : i \in 1..Len(e)} = DOMAIN written_map
            /\ \A i \in 1..Len(e) : e[i].value = SerializeValue(written_map[e[i].key])
            /\ \A i, j \in 1..Len(e) : i < j => KeyRank(e[i].key) < KeyRank(e[j].key)

\* A map whose entries were inserted in another order than the order of
\* their keys was serialized.
SerializeOrderedWitness ==
    /\ store_op = "serialize"
    /\ Len(store_ret.entries) >= 2
    /\ Len(insertion_order) = Len(store_ret.entries)
    /\ \E i \in 1..Len(insertion_order) : insertion_order[i] # store_ret.entries[i].key

\* C24: in every update the number of PreferencesSaved events sent is one
\* when the backend's save was called and returned success, and zero when
\* it was not called or returned an error; the save is called at most once.
SavedEventPerSuccessfulSave ==
    /\ hist.save_calls <= 1
    /\ hist.saved_events = IF hist.save_calls = 1 /\ hist.save_result = "ok" THEN 1 ELSE 0
    /\ hist.save_result = "err" => hist.saved_events = 0
    /\ hist.save_calls = 0 => hist.saved_events = 0

\* An update whose save succeeded and sent the event, after an update of the
\* same run whose save failed.
SavedEventPerSuccessfulSaveWitness ==
    /\ hist.save_calls = 1
    /\ hist.save_result = "ok"
    /\ hist.saved_events = 1
    /\ hist.failed
    /\ pc \in {"First", "Exited"}

\* C25: when save_preferences is about to run, the map holds under each
\* type's effective type path the value the application last assigned, this
\* update's assignment included; a save that succeeds in an update stores the
\* values as they are after the assignments of that update.
WriteBackBeforeSave ==
    /\ (pc = "Save" /\ preferences.exists) =>
          \A t \in AppRegistry :
             hist.assigned[t] # None =>
                /\ resource[t] = hist.assigned[t]
                /\ MapGet(preferences.values, AppRegistry, t) = hist.assigned[t]
    /\ (pc \in {"First", "Exited"} /\ hist.save_calls = 1 /\ hist.save_result = "ok") =>
          /\ disk.state = "doc"
          /\ \A t \in AppRegistry :
                hist.assigned[t] # None =>
                   /\ effective_type_path(t, AppRegistry) \in DOMAIN disk.doc
                   /\ disk.doc[effective_type_path(t, AppRegistry)] =
                         SerializeValue(hist.assigned[t])

\* A save succeeded in the update in which Foo was assigned a value that is
\* neither its default nor the value stored before.
WriteBackBeforeSaveWitness ==
    /\ pc \in {"First", "Exited"}
    /\ hist.save_calls = 1
    /\ hist.save_result = "ok"
    /\ hist.mutated_now
    /\ hist.assigned["Foo"] = [type |-> "Foo", fields |-> [field |-> 1, option |-> 0]]
    /\ disk = Stored(Serialize(preferences.values))
    /\ disk.doc["Foo"] = [field |-> 1, option |-> 0]

\* The conversion of a value to its type in the order of the steps: the
\* value itself when it is of the type, else the from-partial conversion,
\* else the registered default with the value applied onto it, else nothing.
ConversionInOrder(b) ==
    IF ~b.dynamic THEN [type |-> b.rep, fields |-> b.fields]
    ELSE IF FromReflect(b) # None THEN FromReflect(b)
    ELSE IF HasReflectDefault(b.rep) THEN TryApply(DefaultValue(b.rep), b)
    ELSE None

\* C26: a value given to set_dyn or to from_dynamic_values is converted by
\* the first step that succeeds; when no step succeeds for an entry, the
\* other entries of the same call are converted and stored all the same.
ConversionFailureIsPerEntry ==
    /\ store_op = "set_dyn" =>
          MapGet(written_map, type_registry, store_arg.type) = ConversionInOrder(store_arg.value)
    /\ store_op = "from_dynamic_values" =>
          \A k \in DOMAIN store_arg.dyn :
             ConversionInOrder(store_arg.dyn[k]) # None =>
                /\ store_ret.read.ok
                /\ k \in DOMAIN written_map
                /\ written_map[k] = ConversionInOrder(store_arg.dyn[k])

\* C27: every scope that was opened and left has queued exactly one
\* command, whichever way it was left; the command carries the value the
\* guard had when it was dropped; once the queued commands are applied, the
\* entry of each type is the value of the guard of that type dropped last.
MutationScopeCommitsOnce ==
    /\ scope_hist.queued = scope_hist.opened - (IF guard.open THEN 1 ELSE 0)
    /\ scope_hist.op = "drop" =>
          /\ commands # <<>>
          /\ \E t \in AppRegistry :
                /\ commands[Len(commands)].type = t
                /\ commands[Len(commands)] = scope_hist.released[t]
    /\ scope_hist.op = "apply" =>
          /\ commands = <<>>
          /\ \A t \in AppRegistry :
                scope_hist.released[t] # None =>
                   MapGet(written_map, type_registry, t) = scope_hist.released[t]

\* Two scopes of Foo, one of them left by an early return, were left with
\* values other than the default, and their commands were applied.
MutationScopeCommitsOnceWitness ==
    /\ scope_hist.op = "apply"
    /\ scope_hist.opened >= 2
    /\ scope_hist.queued = scope_hist.opened
    /\ scope_hist.early
    /\ scope_hist.released["Foo"] # None
    /\ scope_hist.released["Foo"] # RegisteredDefault("Foo")
    /\ MapGet(written_map, type_registry, "Foo") = scope_hist.released["Foo"]

\* save_preferences is about to run with a map changed since the last save.
DirtyAtSave == pc = "Save" /\ storage /\ Dirty

\* The backend's save was invoked in this update, or the run has ended.
SaveInvoked == (hist.save_calls = 1 /\ pc \in {"First", "Exited"}) \/ pc = "Exited"

\* C28: while updates keep occurring and time advances with them, a map that
\* is changed since the last save is eventually given to the backend's save,
\* also when the application assigns a preference in every update.
SaveNotStarved == DirtyAtSave ~> SaveInvoked

\* A save was invoked in an update in which a preference was assigned, while
\* an assignment of an earlier update had been held back.
SaveNotStarvedWitness ==
    /\ pc = "First"
    /\ hist.save_calls = 1
    /\ hist.mutated_now
    /\ hist.pending_before = 2
    /\ AsSecs(hist.since_save) >= MinSaveIntervalSecs

\* C29: after a deserialize that succeeded, for every key of the document,
\* with T the registered type the key names, get::<T>() on the resulting map
\* returns the entry read under that key.
DeserializedUnderEffectiveKey ==
    (store_op = "deserialize" /\ store_ret.read.ok) =>
        \A k \in DOMAIN store_arg.doc :
            /\ k \in DOMAIN written_map
            /\ MapGet(written_map, type_registry, KeyRegistration(type_registry, k)) =
                  written_map[k]

\* C30: after startup the map no longer holds the entry of a type whose
\* initial value was taken from it; whenever save_preferences is about to
\* run the entry is back, with the current value of the type; and a document
\* a save has stored holds it.
LoadedEntriesPersisted ==
    \A t \in hist.loaded :
        LET k == effective_type_path(t, AppRegistry)
        IN  /\ (pc = "First" /\ hist.frame_in_run = 0) => k \notin DOMAIN preferences.values
            /\ pc = "Save" =>
                  /\ k \in DOMAIN preferences.values
                  /\ preferences.values[k] = resource[t]
            /\ (pc \in {"First", "Exited"} /\ hist.save_calls = 1
                  /\ hist.save_result = "ok") =>
                  /\ disk.state = "doc"
                  /\ k \in DOMAIN disk.doc
                  /\ disk.doc[k] = SerializeValue(resource[t])

\* The first save of a run stored the loaded value of Foo, which the
\* application never assigned, after Bar was assigned.
LoadedEntriesPersistedWitness ==
    /\ pc \in {"First", "Exited"}
    /\ hist.save_calls = 1
    /\ hist.save_result = "ok"
    /\ "Foo" \in hist.loaded
    /\ hist.assigned["Foo"] = None
    /\ hist.assigned["Bar"] # None
    /\ resource["Foo"] # RegisteredDefault("Foo")
    /\ disk.doc["Foo"] = SerializeValue(resource["Foo"])

====
